---- MODULE Spec2Model ----
(***************************************************************************)
(* A model of the key-range machinery of data-diff:                        *)
(*   - split_space            (data_diff/utils.py)                         *)
(*   - ArithUUID / ArithAlphanumeric key arithmetic (data_diff/utils.py)   *)
(*   - SegmentInfo / InfoTree rollup (data_diff/info_tree.py)              *)
(*   - the polling loop of _test_data_source (data_diff/cloud)             *)
(* Python's None is modelled as the empty sequence <<>> and a present      *)
(* value x as the one-element sequence <<x>>, so None and 0 stay distinct. *)
(***************************************************************************)
EXTENDS Integers, Sequences, FiniteSets, TLC

VARIABLES
    s_pc, s_in, s_out,                      \* split_space: one call
    k_pc, k_v, k_w, k_d, k_sum, k_sum2, k_dist, \* key arithmetic: operands and results
    children, info, nnodes, stack, rolled, t_pc, \* InfoTree and the aggregate_info call stack
    p_pc, tests, failed_flag, elapsed, timeout, run_tests, firstDone, timed_out \* _test_data_source

splitVars == <<s_pc, s_in, s_out>>
keyVars == <<k_pc, k_v, k_w, k_d, k_sum, k_sum2, k_dist>>
treeVars == <<children, info, nnodes, stack, rolled, t_pc>>
pollVars == <<p_pc, tests, failed_flag, elapsed, timeout, run_tests, firstDone, timed_out>>
vars == <<splitVars, keyVars, treeVars, pollVars>>

Min(a, b) == IF a < b THEN a ELSE b

\* A raised Python exception, and a returned value.
\* (val of a raised call is a placeholder of the result's type and is never read.)
Raise(kind, placeholder) == [ok |-> FALSE, err |-> kind, val |-> placeholder]
Return(v) == [ok |-> TRUE, err |-> "", val |-> v]

(***************************************************************************)
(* split_space                                                             *)
(***************************************************************************)
MaxStart == 2
MaxSize == 7
MaxCount == 4

\* list(range(start, end, step)) for step # 0, as CPython computes its length.
PyRange(start, end, step) ==
    LET n == IF step > 0
             THEN (IF start < end THEN ((end - start - 1) \div step) + 1 ELSE 0)
             ELSE (IF start > end THEN ((start - end - 1) \div (0 - step)) + 1 ELSE 0)
    IN  [k \in 1..n |-> start + (k - 1) * step]

\* lst[1 : stop] for stop >= 0.
PySlice1(lst, stop) == SubSeq(lst, 2, Min(stop, Len(lst)))

\* The step split_space hands to range(): (size + 1) // (count + 1).
SplitStep(start, end, count) == ((end - start) + 1) \div (count + 1)

split_space(start, end, count) ==
    LET step == SplitStep(start, end, count)
    IN  IF step = 0
        THEN Raise("ValueError", <<>>)   \* range() arg 3 must not be zero
        ELSE Return(PySlice1(PyRange(start, end, step), count + 1))

SplitInputs ==
    { [start |-> a, end |-> a + z, count |-> c] :
        a \in (0 - MaxStart)..MaxStart, z \in 0..MaxSize, c \in 0..MaxCount }

NoCall == [start |-> 0, end |-> 0, count |-> 0]

SplitSpace ==
    /\ s_pc = "call"
    /\ s_out' = split_space(s_in.start, s_in.end, s_in.count)
    /\ s_pc' = "returned"
    /\ UNCHANGED s_in
    /\ UNCHANGED <<keyVars, treeVars, pollVars>>

(***************************************************************************)
(* ArithUUID and ArithAlphanumeric                                         *)
(* A key is a record [kind, int, str, max_len]: a UUID uses int, an        *)
(* alphanumeric uses str (its _str, a sequence of digit values, most       *)
(* significant first) and max_len (0 for None: the code tests              *)
(* "if max_len", which treats None and 0 alike).                           *)
(***************************************************************************)
Base == 36
UuidBits == 3        \* width of the UUID integer line in the model (128 in uuid.UUID)
MaxStrLen == 2       \* longest source string of an input key
MaxDelta == 2

RECURSIVE Pow(_, _)
Pow(b, e) == IF e = 0 THEN 1 ELSE b * Pow(b, e - 1)

NoKey == [kind |-> "none", int |-> 0, str |-> <<>>, max_len |-> 0]
Uuid(i) == [kind |-> "uuid", int |-> i, str |-> <<>>, max_len |-> 0]
Alnum(s, m) == [kind |-> "alnum", int |-> 0, str |-> s, max_len |-> m]

\* UUID(int=i): "int is out of range (need a 128-bit value)".
UuidNew(i) ==
    IF 0 <= i /\ i < Pow(2, UuidBits) THEN Return(Uuid(i)) ELSE Raise("ValueError", NoKey)

\* ArithUUID.__add__(int)
UuidAdd(u, d) == UuidNew(u.int + d)

\* ArithUUID.__sub__(UUID)
UuidSub(u, v) == Return(u.int - v.int)

RECURSIVE numberToBase(_, _)
numberToBase(num, base) ==
    IF num > 0
    THEN Append(numberToBase(num \div base, base), num % base)
    ELSE <<>>

\* int(s, 36) of a string of alphanums digits: the empty string is invalid.
RECURSIVE DigitsValue(_)
DigitsValue(s) ==
    IF s = <<>> THEN 0 ELSE DigitsValue(SubSeq(s, 1, Len(s) - 1)) * Base + s[Len(s)]

AlnumInt(a) ==
    IF a.str = <<>> THEN Raise("ValueError", 0) ELSE Return(DigitsValue(a.str))

\* ArithAlphanumeric.__init__(str=s, max_len=m)
AlnumInitStr(s, m) ==
    IF m # 0 /\ Len(s) > m THEN Raise("ValueError", NoKey) ELSE Return(Alnum(s, m))

\* ArithAlphanumeric.__init__(int=i, max_len=m)
AlnumInitInt(i, m) == AlnumInitStr(numberToBase(i, Base), m)

\* s.rjust(width, "0")
Rjust(s, width) ==
    IF Len(s) >= width THEN s ELSE [i \in 1..(width - Len(s)) |-> 0] \o s

\* ArithAlphanumeric.__str__
AlnumStr(a) == IF a.max_len # 0 THEN Rjust(a.str, a.max_len) ELSE a.str

\* ArithAlphanumeric.__len__
AlnumLen(a) == Len(a.str)

\* ArithAlphanumeric.new(int=i)
AlnumNew(a, i) == AlnumInitInt(i, a.max_len)

\* ArithAlphanumeric.__add__(int)
AlnumAdd(a, d) ==
    LET v == AlnumInt(a) IN
    IF ~v.ok THEN Raise(v.err, NoKey)
    ELSE LET res == AlnumNew(a, v.val + d) IN
         IF ~res.ok THEN res
         ELSE IF Len(AlnumStr(res.val)) # AlnumLen(a)
              THEN Raise("ValueError", NoKey)   \* Overflow error when adding to alphanumeric
              ELSE res

\* ArithAlphanumeric.__sub__(ArithAlphanumeric)
AlnumSub(a, b) ==
    LET x == AlnumInt(a)
        y == AlnumInt(b)
    IN  IF ~x.ok THEN x ELSE IF ~y.ok THEN y ELSE Return(x.val - y.val)

\* ArithAlphanumeric.__ge__ / __lt__ (both operands alphanumeric)
AlnumGe(a, b) ==
    LET x == AlnumInt(a)
        y == AlnumInt(b)
    IN  IF ~x.ok THEN x ELSE IF ~y.ok THEN y ELSE Return(x.val >= y.val)

AlnumLt(a, b) ==
    LET x == AlnumInt(a)
        y == AlnumInt(b)
    IN  IF ~x.ok THEN x ELSE IF ~y.ok THEN y ELSE Return(x.val < y.val)

\* v + d and a - b, dispatched on the key's class.
KeyAdd(v, d) == IF v.kind = "uuid" THEN UuidAdd(v, d) ELSE AlnumAdd(v, d)
KeySub(a, b) == IF a.kind = "uuid" THEN UuidSub(a, b) ELSE AlnumSub(a, b)

\* Input keys: every UUID of the model's width, and every alphanumeric the
\* constructor accepts whose source string is 1..MaxStrLen digits out of
\* '0', '1' and 'z'.
AlnumDigits == {0, 1, Base - 1}
AlnumStrings == UNION { [1..n -> AlnumDigits] : n \in 1..MaxStrLen }
UuidKeys == { Uuid(i) : i \in 0..(Pow(2, UuidBits) - 1) }
AlnumKeys ==
    { AlnumInitStr(s, m).val :
        <<s, m>> \in { x \in AlnumStrings \X (0..(MaxStrLen + 1)) : AlnumInitStr(x[1], x[2]).ok } }
Deltas == (0 - MaxDelta)..MaxDelta

\* k_v + k_d and k_w + k_d
Add ==
    /\ k_pc = "start"
    /\ k_sum' = KeyAdd(k_v, k_d)
    /\ k_sum2' = KeyAdd(k_w, k_d)
    /\ k_pc' = "added"
    /\ UNCHANGED <<k_v, k_w, k_d, k_dist>>
    /\ UNCHANGED <<splitVars, treeVars, pollVars>>

\* (k_v + k_d) - k_v, when the addition returned
Distance ==
    /\ k_pc = "added"
    /\ k_sum.ok
    /\ k_dist' = KeySub(k_sum.val, k_v)
    /\ k_pc' = "measured"
    /\ UNCHANGED <<k_v, k_w, k_d, k_sum, k_sum2>>
    /\ UNCHANGED <<splitVars, treeVars, pollVars>>

(***************************************************************************)
(* SegmentInfo and InfoTree                                                *)
(* Nodes are numbered in creation order, node 1 is the root.               *)
(* children[n] is n's children list; info[n] is n's SegmentInfo.           *)
(* aggregate_info is a recursion: stack holds its call frames, each the    *)
(* node of the call and the position of its for loop over the children.    *)
(***************************************************************************)
MaxNodes == 3

Root == 1
Nodes == 1..MaxNodes

\* SegmentInfo(tables): diff, diff_schema, is_diff, diff_count are None, rowcounts is {}.
NewInfo == [diff |-> <<>>, diff_schema |-> <<>>, is_diff |-> <<>>,
            diff_count |-> <<>>, rowcounts |-> <<>>]

\* SegmentInfo.set_diff(diff, schema)
set_diff(self, diff, schema) ==
    [self EXCEPT !.diff_schema = schema,
                 !.diff = <<diff>>,
                 !.diff_count = <<Len(diff)>>,
                 !.is_diff = <<Len(diff) > 0>>]

\* sum(c.diff_count for c in child_infos if c.diff_count is not None)
RECURSIVE SumDiffCount(_)
SumDiffCount(cs) ==
    IF cs = <<>> THEN 0
    ELSE (IF Head(cs).diff_count # <<>> THEN Head(cs).diff_count[1] ELSE 0)
         + SumDiffCount(Tail(cs))

\* any(c.is_diff for c in child_infos)
AnyIsDiff(cs) == \E i \in 1..Len(cs) : cs[i].is_diff = <<TRUE>>

\* next((c.diff_schema for c in child_infos if c.diff_schema is not None), None)
RECURSIVE FirstSchema(_)
FirstSchema(cs) ==
    IF cs = <<>> THEN <<>>
    ELSE IF Head(cs).diff_schema # <<>> THEN Head(cs).diff_schema
    ELSE FirstSchema(Tail(cs))

\* sum((c.diff for c in child_infos if c.diff is not None), [])
RECURSIVE SumDiff(_)
SumDiff(cs) ==
    IF cs = <<>> THEN <<>>
    ELSE (IF Head(cs).diff # <<>> THEN Head(cs).diff[1] ELSE <<>>) \o SumDiff(Tail(cs))

\* sum(c.rowcounts[side] for c in child_infos if c.rowcounts)
RECURSIVE SumRowcounts(_, _)
SumRowcounts(cs, side) ==
    IF cs = <<>> THEN 0
    ELSE (IF Head(cs).rowcounts # <<>> THEN Head(cs).rowcounts[side] ELSE 0)
         + SumRowcounts(Tail(cs), side)

\* update_from_children with diff_count counting the children that have one
\* instead of adding their counts up.
update_from_children_counting(self, child_infos) ==
    [self EXCEPT !.diff_count = <<Cardinality({i \in 1..Len(child_infos) :
                                                child_infos[i].diff_count # <<>>})>>,
                 !.is_diff = <<AnyIsDiff(child_infos)>>,
                 !.diff_schema = FirstSchema(child_infos),
                 !.diff = <<SumDiff(child_infos)>>,
                 !.rowcounts = <<SumRowcounts(child_infos, 1), SumRowcounts(child_infos, 2)>>]

\* update_from_children with the children's diff lists joined last child first.
RECURSIVE SumDiffReversed(_)
SumDiffReversed(cs) ==
    IF cs = <<>> THEN <<>>
    ELSE SumDiffReversed(Tail(cs)) \o (IF Head(cs).diff # <<>> THEN Head(cs).diff[1] ELSE <<>>)

update_from_children_reversed(self, child_infos) ==
    [self EXCEPT !.diff_count = <<SumDiffCount(child_infos)>>,
                 !.is_diff = <<AnyIsDiff(child_infos)>>,
                 !.diff_schema = FirstSchema(child_infos),
                 !.diff = <<SumDiffReversed(child_infos)>>,
                 !.rowcounts = <<SumRowcounts(child_infos, 1), SumRowcounts(child_infos, 2)>>]

\* SegmentInfo.update_from_children(child_infos), child_infos non-empty
update_from_children(self, child_infos) ==
    [self EXCEPT !.diff_count = <<SumDiffCount(child_infos)>>,
                 !.is_diff = <<AnyIsDiff(child_infos)>>,
                 !.diff_schema = FirstSchema(child_infos),
                 !.diff = <<SumDiff(child_infos)>>,
                 !.rowcounts = <<SumRowcounts(child_infos, 1), SumRowcounts(child_infos, 2)>>]

\* (c.info for c in self.children)
ChildInfos(n) == [i \in 1..Len(children[n]) |-> info[children[n][i]]]

\* The diff rows a comparison of node n's segment can report: k rows of that
\* segment, for k in DiffLens.
DiffLens == {0, 2}
DiffOf(n, k) == [i \in 1..k |-> <<n, i>>]
\* The schema argument of set_diff: absent, or the schema node n's comparison saw.
SchemasOf(n) == {<<>>, <<n>>}
\* The row counts of the two sides of node n's segment.
RowcountsOf(n) == <<n, 2 * n>>

\* InfoTree.add_node on node p
AddNode(p) ==
    /\ t_pc = "build"
    /\ nnodes < MaxNodes
    /\ p \in 1..nnodes
    /\ nnodes' = nnodes + 1
    /\ children' = [children EXCEPT ![p] = Append(@, nnodes + 1)]
    /\ info' = [info EXCEPT ![nnodes + 1] = NewInfo]
    /\ UNCHANGED <<stack, rolled, t_pc>>
    /\ UNCHANGED <<splitVars, keyVars, pollVars>>

\* node.info.set_diff(diff, schema)
SetDiff(n, k, schema) ==
    /\ t_pc = "build"
    /\ n \in 1..nnodes
    /\ info' = [info EXCEPT ![n] = set_diff(@, DiffOf(n, k), schema)]
    /\ UNCHANGED <<children, nnodes, stack, rolled, t_pc>>
    /\ UNCHANGED <<splitVars, keyVars, pollVars>>

\* node.info.rowcounts = {1: count1, 2: count2}
SetRowcounts(n) ==
    /\ t_pc = "build"
    /\ n \in 1..nnodes
    /\ info' = [info EXCEPT ![n].rowcounts = RowcountsOf(n)]
    /\ UNCHANGED <<children, nnodes, stack, rolled, t_pc>>
    /\ UNCHANGED <<splitVars, keyVars, pollVars>>

\* root.aggregate_info() is called: "if self.children" decides whether it does anything.
AggregateCall ==
    /\ t_pc = "build"
    /\ rolled' = {}
    /\ IF children[Root] = <<>>
       THEN t_pc' = "done" /\ stack' = <<>>
       ELSE t_pc' = "aggregating" /\ stack' = <<[node |-> Root, idx |-> 1]>>
    /\ UNCHANGED <<children, info, nnodes>>
    /\ UNCHANGED <<splitVars, keyVars, pollVars>>

Top == stack[Len(stack)]

\* aggregate_info updating the node before it has gone through its children.
ChildrenDoneAtOnce(frame) == TRUE

\* The for loop of the frame has gone through every child.
ChildrenDone(frame) == frame.idx > Len(children[frame.node])

\* The frame on top returns to its caller, whose for loop moves on.
ReturnToCaller ==
    LET rest == SubSeq(stack, 1, Len(stack) - 1) IN
    IF rest = <<>>
    THEN stack' = <<>> /\ t_pc' = "done"
    ELSE /\ stack' = [rest EXCEPT ![Len(rest)].idx = @ + 1]
         /\ t_pc' = "aggregating"

\* "for c in self.children: c.aggregate_info()": the call on the next child.
\* A child without children returns at once; otherwise its frame is pushed.
AggregateChild ==
    /\ t_pc = "aggregating"
    /\ ~ChildrenDone(Top)
    /\ LET c == children[Top.node][Top.idx] IN
         IF children[c] = <<>>
         THEN stack' = [stack EXCEPT ![Len(stack)].idx = @ + 1]
         ELSE stack' = Append(stack, [node |-> c, idx |-> 1])
    /\ UNCHANGED <<children, info, nnodes, rolled, t_pc>>
    /\ UNCHANGED <<splitVars, keyVars, pollVars>>

\* "self.info.update_from_children(c.info for c in self.children)", then return.
AggregateUpdate ==
    /\ t_pc = "aggregating"
    /\ ChildrenDone(Top)
    /\ info' = [info EXCEPT ![Top.node] = update_from_children(@, ChildInfos(Top.node))]
    /\ rolled' = rolled \cup {Top.node}
    /\ ReturnToCaller
    /\ UNCHANGED <<children, nnodes>>
    /\ UNCHANGED <<splitVars, keyVars, pollVars>>

(***************************************************************************)
(* get_or_create_data_source, from "Would you like to run tests?" on, and  *)
(* the polling loop of _test_data_source.                                  *)
(* A response of the test job gives, for each step it lists, "running" or, *)
(* for a step whose status is 'done', its result code ("OK" or "ERR" for   *)
(* any other code); "absent" is a step the response does not list.         *)
(* firstDone records, per tracked test, the code of the first 'done'       *)
(* report the server gave for it while the loop ran.                       *)
(***************************************************************************)
MaxTimeout == 1

TrackedTests == {"connection", "temp_schema", "schema_download"}
StepNames == TrackedTests \cup {"lineage"}
Reports == {"absent", "running", "OK", "ERR"}
Responses == [StepNames -> Reports]

\* run_tests = Confirm.ask(...); "if run_tests:" enters _test_data_source, whose
\* prologue sets failed_flag, start and tests; otherwise ds.id is returned.
AskRunTests(answer) ==
    /\ p_pc = "ask"
    /\ run_tests' = answer
    /\ IF answer
       THEN /\ tests' = TrackedTests
            /\ failed_flag' = TRUE
            /\ elapsed' = 0
            /\ p_pc' = "loop"
       ELSE /\ UNCHANGED <<tests, failed_flag, elapsed>>
            /\ p_pc' = "returned"
    /\ UNCHANGED <<timeout, firstDone, timed_out>>
    /\ UNCHANGED <<splitVars, keyVars, treeVars>>

\* The steps of a response that the for loop does not skip and finds done.
DoneSteps(tracked, resp) == { t \in StepNames : t \in tracked /\ resp[t] \in {"OK", "ERR"} }

\* The for loop without its "if test_name not in tests: continue".
FlagAfterStepsNoSkip(flag, tracked, resp) ==
    IF \E t \in StepNames : resp[t] \in {"OK", "ERR"} /\ resp[t] # "OK" THEN FALSE ELSE flag

\* failed_flag after the for loop over the steps of one response.
FlagAfterSteps(flag, tracked, resp) ==
    IF \E t \in DoneSteps(tracked, resp) : resp[t] # "OK" THEN FALSE ELSE flag

\* "if time.monotonic() - start > timeout"
TimedOut(now, limit) == now > limit

\* One iteration of "while tests": a GET, the for loop over its steps, the timeout check.
Poll(resp, now) ==
    /\ p_pc = "loop"
    /\ tests # {}
    /\ now >= elapsed
    /\ elapsed' = now
    /\ tests' = tests \ DoneSteps(tests, resp)
    /\ failed_flag' = FlagAfterSteps(failed_flag, tests, resp)
    /\ firstDone' = [t \in TrackedTests |->
                        IF firstDone[t] = "none" /\ resp[t] \in {"OK", "ERR"}
                        THEN resp[t] ELSE firstDone[t]]
    /\ timed_out' = TimedOut(now, timeout)
    /\ p_pc' = IF TimedOut(now, timeout) \/ tests' = {} THEN "finished" ELSE "loop"
    /\ UNCHANGED <<timeout, run_tests>>
    /\ UNCHANGED <<splitVars, keyVars, treeVars>>

\* "return failed_flag", and the caller: "if not _test_data_source(...): raise ValueError".
FinishTests ==
    /\ p_pc = "finished"
    /\ p_pc' = IF ~failed_flag THEN "raised" ELSE "returned"
    /\ UNCHANGED <<tests, failed_flag, elapsed, timeout, run_tests, firstDone, timed_out>>
    /\ UNCHANGED <<splitVars, keyVars, treeVars>>

(***************************************************************************)
(* Specifications: one per part of the program; the parts share no state,  *)
(* and a part that is not running keeps its variables at rest.             *)
(***************************************************************************)
\* A call of split_space on some start <= end and count >= 0.
InitSplit ==
    /\ s_pc = "call"
    /\ s_in \in SplitInputs
    /\ s_out = Return(<<>>)
    /\ k_pc = "off"
    /\ k_v = NoKey /\ k_w = NoKey /\ k_d = 0
    /\ k_sum = Raise("", NoKey) /\ k_sum2 = Raise("", NoKey) /\ k_dist = Raise("", 0)
    /\ t_pc = "off"
    /\ nnodes = 1
    /\ children = [n \in Nodes |-> <<>>]
    /\ info = [n \in Nodes |-> NewInfo]
    /\ stack = <<>>
    /\ rolled = {}
    /\ p_pc = "off"
    /\ timeout = 0
    /\ tests = {}
    /\ failed_flag = TRUE
    /\ elapsed = 0
    /\ run_tests = FALSE
    /\ firstDone = [t \in TrackedTests |-> "none"]
    /\ timed_out = FALSE

\* Two keys of one class and a delta.
InitKey ==
    /\ s_pc = "off"
    /\ s_in = NoCall
    /\ s_out = Return(<<>>)
    /\ k_pc = "start"
    /\ \/ k_v \in UuidKeys /\ k_w \in UuidKeys
       \/ k_v \in AlnumKeys /\ k_w \in AlnumKeys
    /\ k_d \in Deltas
    /\ k_sum = Raise("", NoKey) /\ k_sum2 = Raise("", NoKey) /\ k_dist = Raise("", 0)
    /\ t_pc = "off"
    /\ nnodes = 1
    /\ children = [n \in Nodes |-> <<>>]
    /\ info = [n \in Nodes |-> NewInfo]
    /\ stack = <<>>
    /\ rolled = {}
    /\ p_pc = "off"
    /\ timeout = 0
    /\ tests = {}
    /\ failed_flag = TRUE
    /\ elapsed = 0
    /\ run_tests = FALSE
    /\ firstDone = [t \in TrackedTests |-> "none"]
    /\ timed_out = FALSE

\* InfoTree(SegmentInfo(tables)): a root without children.
InitTree ==
    /\ s_pc = "off"
    /\ s_in = NoCall
    /\ s_out = Return(<<>>)
    /\ k_pc = "off"
    /\ k_v = NoKey /\ k_w = NoKey /\ k_d = 0
    /\ k_sum = Raise("", NoKey) /\ k_sum2 = Raise("", NoKey) /\ k_dist = Raise("", 0)
    /\ t_pc = "build"
    /\ nnodes = 1
    /\ children = [n \in Nodes |-> <<>>]
    /\ info = [n \in Nodes |-> NewInfo]
    /\ stack = <<>>
    /\ rolled = {}
    /\ p_pc = "off"
    /\ timeout = 0
    /\ tests = {}
    /\ failed_flag = TRUE
    /\ elapsed = 0
    /\ run_tests = FALSE
    /\ firstDone = [t \in TrackedTests |-> "none"]
    /\ timed_out = FALSE

\* get_or_create_data_source has created the data source and is about to ask.
InitPoll ==
    /\ s_pc = "off"
    /\ s_in = NoCall
    /\ s_out = Return(<<>>)
    /\ k_pc = "off"
    /\ k_v = NoKey /\ k_w = NoKey /\ k_d = 0
    /\ k_sum = Raise("", NoKey) /\ k_sum2 = Raise("", NoKey) /\ k_dist = Raise("", 0)
    /\ t_pc = "off"
    /\ nnodes = 1
    /\ children = [n \in Nodes |-> <<>>]
    /\ info = [n \in Nodes |-> NewInfo]
    /\ stack = <<>>
    /\ rolled = {}
    /\ p_pc = "ask"
    /\ timeout \in 0..MaxTimeout
    /\ tests = {}
    /\ failed_flag = TRUE
    /\ elapsed = 0
    /\ run_tests = FALSE
    /\ firstDone = [t \in TrackedTests |-> "none"]
    /\ timed_out = FALSE

NextSplit == SplitSpace

NextKey == Add \/ Distance

NextTree ==
    \/ \E p \in Nodes : AddNode(p)
    \/ \E n \in Nodes, k \in DiffLens : \E schema \in SchemasOf(n) : SetDiff(n, k, schema)
    \/ \E n \in Nodes : SetRowcounts(n)
    \/ AggregateCall
    \/ AggregateChild
    \/ AggregateUpdate

NextPoll ==
    \/ \E answer \in BOOLEAN : AskRunTests(answer)
    \/ \E resp \in Responses, now \in 0..(MaxTimeout + 1) : Poll(resp, now)
    \/ FinishTests

SpecSplit == InitSplit /\ [][NextSplit]_vars
SpecKey == InitKey /\ [][NextKey]_vars
SpecTree == InitTree /\ [][NextTree]_vars
SpecPoll == InitPoll /\ [][NextPoll]_vars

Init == InitSplit \/ InitKey \/ InitTree \/ InitPoll

Next == NextSplit \/ NextKey \/ NextTree \/ NextPoll

Spec == Init /\ [][Next]_vars

(***************************************************************************)
(* Properties of split_space (SpecSplit)                                   *)
(***************************************************************************)
SplitSize == s_in.end - s_in.start
\* start, the boundaries returned, end
SplitCuts == <<s_in.start>> \o s_out.val \o <<s_in.end>>
\* the widths of the sub-ranges the boundaries cut [start, end) into
SplitWidths == [i \in 1..(Len(SplitCuts) - 1) |-> SplitCuts[i + 1] - SplitCuts[i]]

\* C1: for start <= end and n >= 0, split_space returns at most n boundaries,
\* strictly increasing and strictly inside (start, end), so that with start
\* and end they partition [start, end) without gaps or overlaps.
C1_SplitPartitions ==
    (s_pc = "returned" /\ s_in.start <= s_in.end /\ s_in.count >= 0) =>
        /\ s_out.ok
        /\ Len(s_out.val) <= s_in.count
        /\ \A i \in 1..Len(s_out.val) : s_in.start < s_out.val[i] /\ s_out.val[i] < s_in.end
        /\ \A i \in 1..Len(s_out.val), j \in 1..Len(s_out.val) :
              i < j => s_out.val[i] < s_out.val[j]

\* C5: split_space never fails on a zero step for start <= end and
\* count >= 0, and returns the empty list when count = 0 or end - start = 0.
C5_SplitNeverFails ==
    (s_pc = "returned" /\ s_in.start <= s_in.end /\ s_in.count >= 0) =>
        /\ s_out.err # "ValueError"
        /\ (s_in.count = 0 \/ SplitSize = 0) => (s_out.ok /\ s_out.val = <<>>)

\* C6: where split_space returns boundaries (start < end, count >= 1), the
\* step between them is ceil(size / (count + 1)) and the last sub-range is
\* at most one unit wider than any other sub-range.
C6_SplitBalanced ==
    (s_pc = "returned" /\ s_in.start < s_in.end /\ s_in.count >= 1
        /\ s_out.ok /\ s_out.val # <<>>) =>
        LET ceilStep == (SplitSize + s_in.count) \div (s_in.count + 1)
            last == Len(SplitWidths)
        IN  /\ \A i \in 1..(last - 1) : SplitWidths[i] = ceilStep
            /\ \A i \in 1..last : SplitWidths[last] <= SplitWidths[i] + 1

(***************************************************************************)
(* Properties of the key arithmetic (SpecKey)                              *)
(***************************************************************************)
\* The width an alphanumeric key is held to: max_len when given, else the
\* length of its string.
KeyWidth(v) == IF v.max_len # 0 THEN v.max_len ELSE Len(v.str)

\* The integer a key stands for.
KeyValue(v) == IF v.kind = "uuid" THEN v.int ELSE DigitsValue(v.str)

\* v + d is a value of v's domain.
Representable(v, d) ==
    IF v.kind = "uuid"
    THEN 0 <= KeyValue(v) + d /\ KeyValue(v) + d < Pow(2, UuidBits)
    ELSE 0 <= KeyValue(v) + d /\ KeyValue(v) + d < Pow(Base, KeyWidth(v))

\* C2: for a UUID or alphanumeric key v and a delta d with v + d
\* representable in v's domain (zero and leading zeros included), v + d
\* succeeds and (v + d) - v = d.
C2_RoundTrip ==
    (k_pc \in {"added", "measured"} /\ Representable(k_v, k_d)) =>
        /\ k_sum.ok
        /\ k_pc = "measured" => k_dist = Return(k_d)

\* C3: ArithAlphanumeric.__add__ never returns a key when value + delta is
\* below 0 or needs more digits than the width: it raises.
C3_AddRejectsOverflow ==
    (k_pc \in {"added", "measured"} /\ k_v.kind = "alnum" /\ ~Representable(k_v, k_d)) =>
        ~k_sum.ok

\* C9: two alphanumeric keys of the same max_len and value but different
\* source strings render alike at length max_len, compare equal, add alike
\* (both fail or both give equal values) and are at distance 0.
C9_SameValueSameBehaviour ==
    (k_pc \in {"added", "measured"} /\ k_v.kind = "alnum" /\ k_w.kind = "alnum"
        /\ k_v.max_len # 0 /\ k_v.max_len = k_w.max_len
        /\ KeyValue(k_v) = KeyValue(k_w) /\ k_v.str # k_w.str) =>
        /\ AlnumStr(k_v) = AlnumStr(k_w)
        /\ Len(AlnumStr(k_v)) = k_v.max_len
        /\ AlnumGe(k_v, k_w) = Return(TRUE) /\ AlnumGe(k_w, k_v) = Return(TRUE)
        /\ AlnumLt(k_v, k_w) = Return(FALSE) /\ AlnumLt(k_w, k_v) = Return(FALSE)
        /\ k_sum.ok <=> k_sum2.ok
        /\ (k_sum.ok /\ k_sum2.ok) => AlnumInt(k_sum.val) = AlnumInt(k_sum2.val)
        /\ AlnumSub(k_v, k_w) = Return(0)

(***************************************************************************)
(* Properties of the InfoTree rollup (SpecTree)                            *)
(***************************************************************************)
IsLeaf(n) == children[n] = <<>>
Internal == { n \in 1..nnodes : ~IsLeaf(n) }

\* The sum of len(diff) over the leaves 1..n on which set_diff was called
\* (a leaf's diff is written by set_diff alone).
RECURSIVE LeafRowsUpTo(_)
LeafRowsUpTo(n) ==
    IF n = 0 THEN 0
    ELSE LeafRowsUpTo(n - 1)
         + (IF IsLeaf(n) /\ info[n].diff # <<>> THEN Len(info[n].diff[1]) ELSE 0)

\* C4 as stated: after root.aggregate_info() on a tree of any shape, the
\* root's diff_count is the sum of len(diff) over the leaves on which
\* set_diff was called, leaves never set counting 0.
C4_RootCountAnyShape ==
    t_pc = "done" => info[Root].diff_count = <<LeafRowsUpTo(nnodes)>>

\* C4 amended: the same, for a tree whose root has a child or had set_diff
\* called itself; on a childless root never set, aggregate_info does nothing
\* and diff_count stays None.
C4_RootCountIsLeafRows ==
    /\ (t_pc = "done" /\ (~IsLeaf(Root) \/ info[Root].diff # <<>>)) =>
           info[Root].diff_count = <<LeafRowsUpTo(nnodes)>>
    /\ (t_pc = "done" /\ IsLeaf(Root) /\ info[Root].diff = <<>>) =>
           info[Root].diff_count = <<>>

\* A rollup over a root with a leaf left untouched and a leaf holding rows.
C4_Witness ==
    /\ t_pc = "done"
    /\ \E a \in 1..nnodes, b \in 1..nnodes :
          /\ a # Root /\ b # Root
          /\ IsLeaf(a) /\ info[a].diff = <<>>
          /\ IsLeaf(b) /\ info[b].diff # <<>> /\ Len(info[b].diff[1]) >= 2
    /\ LeafRowsUpTo(nnodes) >= 2

\* The fold of the children's values, written over the positions of the
\* children list.
ChildCount(c) == IF info[c].diff_count # <<>> THEN info[c].diff_count[1] ELSE 0
ChildRows(c) == IF info[c].diff # <<>> THEN info[c].diff[1] ELSE <<>>
ChildSide(c, side) == IF info[c].rowcounts # <<>> THEN info[c].rowcounts[side] ELSE 0

RECURSIVE CountOfFirst(_, _)
CountOfFirst(cs, k) == IF k = 0 THEN 0 ELSE CountOfFirst(cs, k - 1) + ChildCount(cs[k])

RECURSIVE RowsOfFirst(_, _)
RowsOfFirst(cs, k) == IF k = 0 THEN <<>> ELSE RowsOfFirst(cs, k - 1) \o ChildRows(cs[k])

RECURSIVE SideOfFirst(_, _, _)
SideOfFirst(cs, k, side) ==
    IF k = 0 THEN 0 ELSE SideOfFirst(cs, k - 1, side) + ChildSide(cs[k], side)

SchemaOfFirstWithOne(cs) ==
    LET have == { i \in 1..Len(cs) : info[cs[i]].diff_schema # <<>> }
    IN  IF have = {} THEN <<>>
        ELSE info[cs[CHOOSE i \in have : \A j \in have : i <= j]].diff_schema

\* The children of n in the order perm, rolled up afresh.
RolledUpInOrder(n, perm) ==
    update_from_children(info[n], [i \in 1..Len(children[n]) |-> info[children[n][perm[i]]]])

\* C7: after aggregate_info, every node with children holds the fold of its
\* children's final values: diff_count their sum, is_diff their or,
\* diff_schema that of the first child with one, rowcounts the per-side sums,
\* diff the concatenation in child order; and no order of the children
\* changes diff_count, is_diff or rowcounts.
C7_ParentsHoldFold ==
    t_pc = "done" =>
        \A n \in Internal :
            LET cs == children[n] IN
            /\ info[n].diff_count = <<CountOfFirst(cs, Len(cs))>>
            /\ info[n].is_diff = <<\E i \in 1..Len(cs) : info[cs[i]].is_diff = <<TRUE>>>>
            /\ info[n].diff_schema = SchemaOfFirstWithOne(cs)
            /\ info[n].rowcounts = <<SideOfFirst(cs, Len(cs), 1), SideOfFirst(cs, Len(cs), 2)>>
            /\ info[n].diff = <<RowsOfFirst(cs, Len(cs))>>
            /\ \A perm \in Permutations(1..Len(cs)) :
                  /\ RolledUpInOrder(n, perm).diff_count = info[n].diff_count
                  /\ RolledUpInOrder(n, perm).is_diff = info[n].is_diff
                  /\ RolledUpInOrder(n, perm).rowcounts = info[n].rowcounts

\* A rolled-up node with two children that both hold rows and row counts,
\* where only the second has a schema.
C7_Witness ==
    /\ t_pc = "done"
    /\ \E n \in Internal :
          /\ Len(children[n]) >= 2
          /\ LET a == children[n][1]
                 b == children[n][2]
             IN  /\ ChildRows(a) # <<>> /\ ChildRows(b) # <<>>
                 /\ info[a].diff_schema = <<>> /\ info[b].diff_schema # <<>>
                 /\ info[a].rowcounts # <<>> /\ info[b].rowcounts # <<>>
          /\ info[n].diff_schema # <<>>

HasValue(c) ==
    /\ info[c].diff_count # <<>>
    /\ info[c].is_diff # <<>>
    /\ Len(info[c].rowcounts) = 2

\* C8 as stated: whenever the rollup has written a node's aggregates, every
\* child of the node has a diff_count, an is_diff and both row counts.
C8_EveryChildHasValue ==
    \A n \in rolled : \A i \in 1..Len(children[n]) : HasValue(children[n][i])

\* C8 amended: whenever the rollup has written a node's aggregates, every
\* child of the node that has children of its own has been rolled up before
\* and has a diff_count, an is_diff and both row counts; a childless child
\* may still have none, and is folded in as absent.
C8_InnerChildrenRolledFirst ==
    \A n \in rolled : \A i \in 1..Len(children[n]) :
        LET c == children[n][i] IN
        ~IsLeaf(c) => (c \in rolled /\ HasValue(c))

\* The root is rolled up over a child that was rolled up over an untouched leaf.
C8_Witness ==
    /\ Root \in rolled
    /\ \E i \in 1..Len(children[Root]) :
          LET c == children[Root][i] IN
          /\ ~IsLeaf(c)
          /\ c \in rolled
          /\ \E j \in 1..Len(children[c]) :
                IsLeaf(children[c][j]) /\ ~HasValue(children[c][j])

(***************************************************************************)
(* Properties of the data source tests (SpecPoll)                          *)
(***************************************************************************)
SomeNonOk == \E t \in TrackedTests : firstDone[t] = "ERR"
TestsRan == run_tests /\ p_pc \in {"loop", "finished", "raised", "returned"}

\* C10: the polling loop goes on only while a tracked test is pending and
\* the elapsed time is within timeout, and ends when all three are reported
\* done or the time is exceeded; its result is False exactly when a tracked
\* test was reported done with a code other than OK (so True after a timeout
\* with tests pending and no such report), and get_or_create_data_source
\* raises exactly when the result is False.
C10_PollResult ==
    /\ TestsRan => tests = { t \in TrackedTests : firstDone[t] = "none" }
    /\ p_pc = "loop" => (tests # {} /\ elapsed <= timeout /\ ~timed_out)
    /\ (TestsRan /\ p_pc # "loop") => (tests = {} \/ (timed_out /\ elapsed > timeout))
    /\ TestsRan => (failed_flag = FALSE <=> SomeNonOk)
    /\ p_pc = "raised" => (run_tests /\ failed_flag = FALSE)
    /\ (p_pc = "returned" /\ run_tests) => failed_flag = TRUE

\* The tests ran into the timeout with a test pending and nothing but OK
\* reported, and the data source id was returned.
C10_Witness ==
    /\ p_pc = "returned" /\ run_tests
    /\ timed_out /\ tests # {} /\ tests # TrackedTests
    /\ failed_flag = TRUE

====
